---- MODULE Spec2Model ----
(***************************************************************************)
(* Foosball tracker: rating engine, game log, seasons, cake ledger,        *)
(* leaderboard snapshots and the single-elimination bracket engine.        *)
(*                                                                         *)
(* Time is counted in seconds since 1 January 00:00:00 of model year 0;    *)
(* every model year is a non-leap year of 365 days.                        *)
(*                                                                         *)
(* Calls between functions follow the definitions of the source tree: a    *)
(* call with a keyword the callee does not declare raises TypeError. The   *)
(* season_id columns accept NULL, as rows written by update_cake_balance   *)
(* and by record_tournament_match carry no season.                         *)
(***************************************************************************)
EXTENDS Integers, Sequences, FiniteSets, TLC

VARIABLES
    now,        \* the wall clock (datetime.utcnow())
    elo,        \* Player.elo_rating, per player
    eloType,    \* Player.elo_1v1 / elo_2v2 / elo_2v1, per player
    games,      \* the game table: sequence of game rows, id = index
    seasons,    \* the season table: sequence of season rows, id = index
    cake,       \* the cake_balance table: set of rows
    hist,       \* the leaderboard_history table: set of rows
    tstatus,    \* Tournament.status ("none" while no tournament exists)
    seeds,      \* TournamentParticipant: seed -> player
    matches,    \* the tournament_match table: match id -> row
    audit,      \* number of game_audit_log rows
    applied,    \* replay specification: ids of the games applied so far
    pc,         \* per request worker: where its get_current_season() call is
    last        \* the last request and its outcome

vars == <<now, elo, eloType, games, seasons, cake, hist, tstatus, seeds,
          matches, audit, applied, pc, last>>

-----------------------------------------------------------------------------
(* Bounds of the model. *)

MaxGames == 2       \* game rows recorded through add_game
MaxEdits == 1       \* accepted edits (rows of the audit log)
MaxLog == 3         \* length of the game logs of the replay specification
MaxEntrants == 5    \* players entered into a tournament that is played
MaxDated == 2       \* game rows recorded in the snapshot specification
MaxBetween == 1     \* game rows recorded while two workers resolve the season
MaxBracket == 16    \* players entered into a bracket that is only generated

GameTypes == {"1v1", "2v2", "2v1"}
NoId == 0           \* a NULL foreign key (falsy, like None, in the code's tests)

-----------------------------------------------------------------------------
(* Rating engine: services/elo_service.py *)

BaseElo == 1500
KFactor == 32

\* EloThreshold[k] is the largest doubled rating difference x2 = 2*(own team
\* average - other team average) for which round(32 / (1 + 10^((x2/2)/400)))
\* is at least k: the tabulation of the winner's gain of calculate_elo_change
\* (team averages of one or two integer ratings are multiples of 1/2).
EloThreshold ==
    << 1439, 1046, 857, 728, 628, 546, 474, 411, 353, 299, 248, 200, 154,
       109, 65, 21, -22, -66, -110, -155, -201, -249, -300, -354, -412,
       -475, -547, -629, -729, -858, -1047, -1440 >>

\* round(k_factor * expected score of the OTHER team), for a team whose doubled
\* average exceeds the other team's by x2.
RoundedShare(x2) == Cardinality({k \in 1 .. KFactor : x2 <= EloThreshold[k]})

\* A rating change that leaves the losing team's rating where it was.
elo_change_loser_unchanged(t1x2, t2x2, s1, s2) ==
    << IF s1 > s2 THEN RoundedShare(t1x2 - t2x2) ELSE 0,
       IF s2 > s1 THEN RoundedShare(t2x2 - t1x2) ELSE 0 >>

\* A rating change whose two values are rounded apart (the gain down, the loss
\* away from zero) unless the two averages are equal.
elo_change_rounded_apart(t1x2, t2x2, s1, s2) ==
    LET apart == IF t1x2 = t2x2 THEN 0 ELSE 1
    IN  << IF s1 > s2 THEN RoundedShare(t1x2 - t2x2)
           ELSE 0 - RoundedShare(t2x2 - t1x2) - apart,
           IF s2 > s1 THEN RoundedShare(t2x2 - t1x2)
           ELSE 0 - RoundedShare(t1x2 - t2x2) - apart >>

\* calculate_elo_change on doubled team averages: <<team1_change, team2_change>>.
\* round(32 * (1 - e)) = RoundedShare(own - other); round(32 * (0 - e)) =
\* -RoundedShare(other - own).
calculate_elo_change(t1x2, t2x2, s1, s2) ==
    << IF s1 > s2 THEN RoundedShare(t1x2 - t2x2) ELSE 0 - RoundedShare(t2x2 - t1x2),
       IF s2 > s1 THEN RoundedShare(t2x2 - t1x2) ELSE 0 - RoundedShare(t1x2 - t2x2) >>

RECURSIVE SumOver(_, _)
SumOver(f, S) ==
    IF S = {} THEN 0
    ELSE LET x == CHOOSE y \in S : TRUE IN f[x] + SumOver(f, S \ {x})

\* Twice the arithmetic mean of the ratings f of a non-empty team of one or
\* two players.
DoubledAvg(f, team) == (2 * SumOver(f, team)) \div Cardinality(team)

\* A rating update that adds the delta of the global rating to the rating of
\* the game type as well.
update_with_shared_delta(r, g) ==
    LET cg == calculate_elo_change(DoubledAvg(r.elo, g.team1),
                                   DoubledAvg(r.elo, g.team2), g.s1, g.s2)
        d(p) == IF p \in g.team1 THEN cg[1]
                ELSE IF p \in g.team2 THEN cg[2] ELSE 0
    IN  [elo |-> [p \in DOMAIN r.elo |-> r.elo[p] + d(p)],
         eloType |-> [p \in DOMAIN r.eloType |->
                        [r.eloType[p] EXCEPT ![g.type] = @ + d(p)]],
         chg |-> cg]

\* update_elo_ratings(game) on the rating columns r = [elo, eloType]; the
\* result also carries the elo_change written to the game's participants.
update_elo_ratings(r, g) ==
    LET ty == g.type
        spec == [p \in DOMAIN r.eloType |-> r.eloType[p][ty]]
        cg == calculate_elo_change(DoubledAvg(r.elo, g.team1),
                                   DoubledAvg(r.elo, g.team2), g.s1, g.s2)
        cs == calculate_elo_change(DoubledAvg(spec, g.team1),
                                   DoubledAvg(spec, g.team2), g.s1, g.s2)
        d(p, c) == IF p \in g.team1 THEN c[1]
                   ELSE IF p \in g.team2 THEN c[2] ELSE 0
    IN  [elo |-> [p \in DOMAIN r.elo |-> r.elo[p] + d(p, cg)],
         eloType |-> [p \in DOMAIN r.eloType |->
                        [r.eloType[p] EXCEPT ![ty] = @ + d(p, cs)]],
         chg |-> cg]

\* Game.query.order_by(Game.start_time): the ids of gs by ascending start
\* time. The query names no second sort key; SQLite, the engine config.py
\* configures, returns rows of equal start time in rowid (id) order.
Before(gs, i, j) == gs[i].t < gs[j].t \/ (gs[i].t = gs[j].t /\ i < j)

ChronPos(gs, S, i) == 1 + Cardinality({j \in S : Before(gs, j, i)})

OrderByStartTime(gs, S) ==
    [k \in 1 .. Cardinality(S) |-> CHOOSE i \in S : ChronPos(gs, S, i) = k]

\* A replay that starts from the ratings the players have.
KeepRatings(ps) ==
    [elo |-> [p \in ps |-> elo[p]],
     eloType |-> [p \in ps |-> eloType[p]]]

ResetRatings(ps) ==
    [elo |-> [p \in ps |-> BaseElo],
     eloType |-> [p \in ps |-> [ty \in GameTypes |-> BaseElo]]]

RECURSIVE ReplayFrom(_, _, _, _)
ReplayFrom(r, gs, ord, k) ==
    IF k > Len(ord) THEN r
    ELSE LET u == update_elo_ratings(r, gs[ord[k]])
         IN  ReplayFrom([elo |-> u.elo, eloType |-> u.eloType], gs, ord, k + 1)

\* The replay loop with what it writes: the ratings and the elo_change of
\* the participants of each game.
RECURSIVE ReplayChanges(_, _, _, _)
ReplayChanges(r, gs, ord, k) ==
    IF k > Len(ord) THEN [elo |-> r.elo, eloType |-> r.eloType, games |-> gs]
    ELSE LET u == update_elo_ratings(r, gs[ord[k]])
         IN  ReplayChanges([elo |-> u.elo, eloType |-> u.eloType],
                           [gs EXCEPT ![ord[k]].chg = u.chg], ord, k + 1)

\* A replay that ignores start_time and takes the games in table (id) order.
recalculate_in_table_order(ps, gs) ==
    ReplayFrom(ResetRatings(ps), gs, [k \in 1 .. Len(gs) |-> k], 1)

\* recalculate_all_elo_ratings(): every player back to 1500, then every game
\* of the table replayed in start_time order.
recalculate_all_elo_ratings(ps, gs) ==
    ReplayFrom(ResetRatings(ps), gs, OrderByStartTime(gs, DOMAIN gs), 1)

-----------------------------------------------------------------------------
(* Bracket engine: services/tournament_service.py *)

\* A bracket one round deeper than the field needs.
one_round_more(n) == 1 + (CHOOSE r \in 0 .. 8 : 2^r >= n /\ (r = 0 \/ 2^(r - 1) < n))

\* math.ceil(math.log2(num_players)) for num_players >= 1.
NumRounds(n) == CHOOSE r \in 0 .. 8 : 2^r >= n /\ (r = 0 \/ 2^(r - 1) < n)

\* Two other seeding orders: seed i against seed size + 1 - i with the pairs
\* in seed order (1 and 2 in neighbouring matches), and the seeds in plain
\* ascending order.
paired_seeding(n) ==
    [i \in 1 .. 2^n |-> IF i % 2 = 1 THEN (i + 1) \div 2 ELSE 2^n + 1 - (i \div 2)]

adjacent_seeding(n) == [i \in 1 .. 2^n |-> i]

\* get_seeding_for_round(n): [1,2] for n = 1; otherwise each seed of the
\* previous round followed by its complement size + 1 - seed.
RECURSIVE get_seeding_for_round(_)
get_seeding_for_round(n) ==
    IF n = 1 THEN <<1, 2>>
    ELSE LET prev == get_seeding_for_round(n - 1)
             size == 2^n
         IN  [i \in 1 .. size |->
                IF i % 2 = 1 THEN prev[(i + 1) \div 2]
                ELSE size + 1 - prev[i \div 2]]

\* Primary keys of the match rows of one tournament, in creation order: the
\* final first, then round 2, round 3, ... by match number.
MatchId(r, m) == 2^(r - 1) + m - 1

\* A bracket whose matches of round r all feed the first match of round r - 1.
EmptyBracketToFirst(R) ==
    [id \in 1 .. (2^R - 1) |->
        LET r == CHOOSE x \in 1 .. R : 2^(x - 1) <= id /\ id < 2^x
            m == id - 2^(r - 1) + 1
        IN  [round |-> r, num |-> m,
             next |-> IF r = 1 THEN NoId ELSE MatchId(r - 1, 1),
             p1 |-> NoId, p2 |-> NoId, winner |-> NoId, game |-> NoId]]

\* The rows created "from finals backwards": round r has 2^(r-1) matches and
\* match (r, m) feeds match (r - 1, (m + 1) // 2); the final feeds nothing.
EmptyBracket(R) ==
    [id \in 1 .. (2^R - 1) |->
        LET r == CHOOSE x \in 1 .. R : 2^(x - 1) <= id /\ id < 2^x
            m == id - 2^(r - 1) + 1
        IN  [round |-> r, num |-> m,
             next |-> IF r = 1 THEN NoId ELSE MatchId(r - 1, (m + 1) \div 2),
             p1 |-> NoId, p2 |-> NoId, winner |-> NoId, game |-> NoId]]

\* TournamentMatch.query.filter_by(next_match_id = nxt)
Feeders(ms, nxt) == {j \in DOMAIN ms : ms[j].next = nxt}

\* ... .order_by(TournamentMatch.match_number).all()[0]
FirstFeeder(ms, nxt) ==
    CHOOSE j \in Feeders(ms, nxt) : \A k \in Feeders(ms, nxt) : ms[j].num <= ms[k].num

\* An advance that resolves a half-filled next match without looking at the
\* matches feeding it.
RECURSIVE advance_winner_eager(_, _, _)
advance_winner_eager(ms, id, auto) ==
    IF ms[id].winner = NoId \/ ms[id].next = NoId THEN ms
    ELSE
        LET nxt == ms[id].next
            placed == IF FirstFeeder(ms, nxt) = id
                      THEN [ms EXCEPT ![nxt].p1 = ms[id].winner]
                      ELSE [ms EXCEPT ![nxt].p2 = ms[id].winner]
        IN  IF ~auto THEN placed
            ELSE IF placed[nxt].p1 # NoId /\ placed[nxt].p2 = NoId
                 THEN advance_winner_eager([placed EXCEPT ![nxt].winner = placed[nxt].p1],
                                           nxt, TRUE)
            ELSE IF placed[nxt].p2 # NoId /\ placed[nxt].p1 = NoId
                 THEN advance_winner_eager([placed EXCEPT ![nxt].winner = placed[nxt].p2],
                                           nxt, TRUE)
            ELSE placed

\* An advance that cascades through half-filled matches whether or not it
\* was asked to.
advance_winner_cascade(ms, id, auto) == advance_winner_eager(ms, id, TRUE)

\* An advance that moves the other player of the match, not its winner, into
\* the next match.
advance_other_player(ms, id, auto) ==
    IF ms[id].winner = NoId \/ ms[id].next = NoId THEN ms
    ELSE LET other == IF ms[id].winner = ms[id].p1 THEN ms[id].p2 ELSE ms[id].p1
         IN  IF FirstFeeder(ms, ms[id].next) = id
             THEN [ms EXCEPT ![ms[id].next].p1 = other]
             ELSE [ms EXCEPT ![ms[id].next].p2 = other]

\* An advance that always writes the winner into the first slot of the next
\* match.
advance_into_first_slot(ms, id, auto) ==
    IF ms[id].winner = NoId \/ ms[id].next = NoId THEN ms
    ELSE [ms EXCEPT ![ms[id].next].p1 = ms[id].winner]

\* advance_winner(match, auto_advance_byes) on the match table ms.
RECURSIVE advance_winner(_, _, _)
advance_winner(ms, id, auto) ==
    IF ms[id].winner = NoId \/ ms[id].next = NoId THEN ms
    ELSE
        LET nxt == ms[id].next
            placed == IF FirstFeeder(ms, nxt) = id
                      THEN [ms EXCEPT ![nxt].p1 = ms[id].winner]
                      ELSE [ms EXCEPT ![nxt].p2 = ms[id].winner]
            resolved == \A j \in Feeders(placed, nxt) : placed[j].winner # NoId
        IN  IF ~auto \/ ~resolved THEN placed
            ELSE IF placed[nxt].p1 # NoId /\ placed[nxt].p2 = NoId
                 THEN advance_winner([placed EXCEPT ![nxt].winner = placed[nxt].p1],
                                     nxt, TRUE)
            ELSE IF placed[nxt].p2 # NoId /\ placed[nxt].p1 = NoId
                 THEN advance_winner([placed EXCEPT ![nxt].winner = placed[nxt].p2],
                                     nxt, TRUE)
            ELSE placed

\* The loop over the first-round matches in match_number order: players (or
\* byes) by seed, then the winner of a one-player match set and advanced.
RECURSIVE AssignFirstRound(_, _, _, _)
AssignFirstRound(ms, i, R, sd) ==
    IF i >= 2^(R - 1) THEN ms
    ELSE
        LET id == MatchId(R, i + 1)
            order == get_seeding_for_round(R)
            seed1 == order[i * 2 + 1]
            seed2 == order[i * 2 + 2]
            pl1 == IF seed1 <= Len(sd) THEN sd[seed1] ELSE NoId
            pl2 == IF seed2 <= Len(sd) THEN sd[seed2] ELSE NoId
            a == [ms EXCEPT ![id].p1 = pl1, ![id].p2 = pl2]
            b == IF pl1 # NoId /\ pl2 = NoId
                 THEN advance_winner([a EXCEPT ![id].winner = pl1], id, TRUE)
                 ELSE IF pl2 # NoId /\ pl1 = NoId
                 THEN advance_winner([a EXCEPT ![id].winner = pl2], id, TRUE)
                 ELSE a
        IN  AssignFirstRound(b, i + 1, R, sd)

\* generate_tournament_bracket for the shuffled players sd (seed -> player),
\* Len(sd) >= 2: the match table it commits.
generate_tournament_bracket(sd) ==
    AssignFirstRound(EmptyBracket(NumRounds(Len(sd))), 0, NumRounds(Len(sd)), sd)

-----------------------------------------------------------------------------
(* Season resolver: services/season_service.py; the season table is the one  *)
(* the migration creates (name unique).                                      *)

SecondsPerDay == 86400
DaysPerYear == 365

\* First day of the year (0-based) of each quarter: 1 Jan, 1 Apr, 1 Jul, 1 Oct.
QuarterFirstDay == <<0, 90, 181, 273>>

\* Day of the year of the end_date get_quarter_boundaries computes: quarter 1
\* takes the "end_month == 3" branch (28 March), quarters 2 and 3 end on the
\* 30th of June and September, quarter 4 on 31 December.
QuarterEndDay == <<86, 180, 272, 364>>

At(day, sec) == day * SecondsPerDay + sec

DateOf(t) == t \div SecondsPerDay

\* get_quarter_info(date): <<quarter, year>>
get_quarter_info(t) ==
    LET doy == DateOf(t) % DaysPerYear
    IN  << CHOOSE q \in 1 .. 4 :
               /\ QuarterFirstDay[q] <= doy
               /\ (q = 4 \/ doy < QuarterFirstDay[q + 1]),
           DateOf(t) \div DaysPerYear >>

\* get_quarter_boundaries(year, quarter): <<start_date, end_date>>
get_quarter_boundaries(year, quarter) ==
    << At(year * DaysPerYear + QuarterFirstDay[quarter], 0),
       At(year * DaysPerYear + QuarterEndDay[quarter], SecondsPerDay - 1) >>

SeasonRow(year, quarter, cur) ==
    [name |-> <<quarter, year>>,
     start |-> get_quarter_boundaries(year, quarter)[1],
     end |-> get_quarter_boundaries(year, quarter)[2],
     cur |-> cur]

\* A season table without the unique constraint on name.
NoNameConstraint(ss, year, quarter) == TRUE

\* create_season(year, quarter): the insert is committed at once; a second row
\* with the same name violates the unique constraint on season.name.
CanCreateSeason(ss, year, quarter) ==
    \A i \in DOMAIN ss : ss[i].name # <<quarter, year>>

create_season(ss, year, quarter) == Append(ss, SeasonRow(year, quarter, FALSE))

\* Season.query.filter(start_date <= date, end_date >= date).first(): its id,
\* NoId when there is none.
SeasonContaining(ss, t) ==
    LET hit == {i \in DOMAIN ss : ss[i].start <= t /\ ss[i].end >= t}
    IN  IF hit = {} THEN NoId ELSE CHOOSE i \in hit : \A j \in hit : i <= j

\* get_season_for_date(date): [ok, seasons, id]; ok is FALSE when create_season
\* raises.
get_season_for_date(ss, t) ==
    IF SeasonContaining(ss, t) # NoId
    THEN [ok |-> TRUE, seasons |-> ss, id |-> SeasonContaining(ss, t)]
    ELSE LET qy == get_quarter_info(t)
         IN  IF CanCreateSeason(ss, qy[2], qy[1])
             THEN [ok |-> TRUE, seasons |-> create_season(ss, qy[2], qy[1]),
                   id |-> Len(ss) + 1]
             ELSE [ok |-> FALSE, seasons |-> ss, id |-> NoId]

\* Season.query.filter_by(is_current=True).first(): its id, NoId when none.
CurrentSeason(ss) ==
    LET hit == {i \in DOMAIN ss : ss[i].cur}
    IN  IF hit = {} THEN NoId ELSE CHOOSE i \in hit : \A j \in hit : i <= j

\* A transition that flags the season and leaves the other flags alone.
transition_keep_flags(ss, id) ==
    [i \in DOMAIN ss |-> [ss[i] EXCEPT !.cur = (ss[i].cur \/ i = id)]]

\* transition_to_season(season): no season current, then this one; every
\* player's elo_rating (the global rating only) back to 1500.
transition_to_season(ss, id) ==
    [i \in DOMAIN ss |-> [ss[i] EXCEPT !.cur = (i = id)]]

\* get_current_season(): [ok, seasons, id, reset]; reset tells whether
\* transition_to_season ran.
get_current_season(ss, t) ==
    LET c == CurrentSeason(ss)
        qy == IF c # NoId THEN get_quarter_info(ss[c].end + SecondsPerDay)
              ELSE get_quarter_info(t)
    IN  IF c # NoId /\ ~(t > ss[c].end)
        THEN [ok |-> TRUE, seasons |-> ss, id |-> c, reset |-> FALSE]
        ELSE IF CanCreateSeason(ss, qy[2], qy[1])
        THEN [ok |-> TRUE,
              seasons |-> transition_to_season(create_season(ss, qy[2], qy[1]),
                                               Len(ss) + 1),
              id |-> Len(ss) + 1, reset |-> TRUE]
        ELSE [ok |-> FALSE, seasons |-> ss, id |-> NoId, reset |-> FALSE]

-----------------------------------------------------------------------------
(* Cake ledger: services/game_service.py *)

\* Game.is_shutout
is_shutout(g) == (IF g.s1 >= g.s2 THEN g.s1 - g.s2 ELSE g.s2 - g.s1) >= 10

Winners(g) == IF g.s1 > g.s2 THEN g.team1 ELSE g.team2
Losers(g) == IF g.s1 > g.s2 THEN g.team2 ELSE g.team1

\* One pass of the inner loop of update_cake_balance: the row of (debtor,
\* creditor), whatever its season, is incremented; a missing row is created
\* with balance 1 and no season_id.
BumpCake(ck, d, c) ==
    IF \E r \in ck : r.debtor = d /\ r.creditor = c
    THEN LET r == CHOOSE x \in ck : x.debtor = d /\ x.creditor = c
         IN  (ck \ {r}) \cup {[r EXCEPT !.balance = @ + 1]}
    ELSE ck \cup {[debtor |-> d, creditor |-> c, season |-> NoId, balance |-> 1]}

RECURSIVE BumpAll(_, _)
BumpAll(ck, pairs) ==
    IF pairs = {} THEN ck
    ELSE LET pr == CHOOSE x \in pairs : TRUE
         IN  BumpAll(BumpCake(ck, pr[1], pr[2]), pairs \ {pr})

\* A ledger update that books the cake for one loser and one winner only.
update_cake_first_pair(ck, g) ==
    BumpCake(ck, CHOOSE d \in Losers(g) : \A x \in Losers(g) : d <= x,
                 CHOOSE c \in Winners(g) : \A x \in Winners(g) : c <= x)

\* update_cake_balance(game): every loser owes every winner one more cake.
update_cake_balance(ck, g) == BumpAll(ck, Losers(g) \X Winners(g))

\* Step 3 of recalculate_all_derived_data without a season: every row
\* deleted, then update_cake_balance for every shutout in start_time order.
\* A rebuild loop that stops at the first game that is no shutout.
RECURSIVE RebuildUntilNoShutout(_, _, _, _)
RebuildUntilNoShutout(ck, gs, ord, k) ==
    IF k > Len(ord) \/ ~is_shutout(gs[ord[k]]) THEN ck
    ELSE RebuildUntilNoShutout(update_cake_balance(ck, gs[ord[k]]), gs, ord, k + 1)

RECURSIVE RebuildFrom(_, _, _, _)
RebuildFrom(ck, gs, ord, k) ==
    IF k > Len(ord) THEN ck
    ELSE RebuildFrom(IF is_shutout(gs[ord[k]])
                     THEN update_cake_balance(ck, gs[ord[k]]) ELSE ck,
                     gs, ord, k + 1)

rebuild_cake_balances(gs) == RebuildFrom({}, gs, OrderByStartTime(gs, DOMAIN gs), 1)

-----------------------------------------------------------------------------
(* Leaderboard snapshots: services/leaderboard_service.py *)

\* Number of GamePlayer rows of player p joined to games of season sid.
SeasonGameCount(gs, sid, p) ==
    Cardinality({i \in DOMAIN gs :
                    gs[i].season = sid /\ p \in gs[i].team1 \cup gs[i].team2})

\* Position of p in the list sorted by rating, highest first; the sort is
\* stable, so equal ratings keep the order of Player.query.all() (by id).
RankIn(f, S, p) ==
    1 + Cardinality({q \in S : f[q] > f[p] \/ (f[q] = f[p] /\ q < p)})

\* A snapshot step that inserts its rows without looking for existing ones.
create_snapshot_insert_only(hs, f, gs, sid, date) ==
    hs \cup {[player |-> p, season |-> sid, date |-> date,
              rank |-> RankIn(f, {q \in DOMAIN f : SeasonGameCount(gs, sid, q) > 0}, p),
              elo |-> f[p], games |-> SeasonGameCount(gs, sid, p)] :
                 p \in {q \in DOMAIN f : SeasonGameCount(gs, sid, q) > 0}}

\* create_daily_snapshot(season_id, snapshot_date): one row per player with a
\* game in the season, inserted or updated in place.
create_daily_snapshot(hs, f, gs, sid, date) ==
    LET S == {p \in DOMAIN f : SeasonGameCount(gs, sid, p) > 0}
    IN  {h \in hs : ~(h.player \in S /\ h.season = sid /\ h.date = date)}
        \cup {[player |-> p, season |-> sid, date |-> date,
               rank |-> RankIn(f, S, p), elo |-> f[p],
               games |-> SeasonGameCount(gs, sid, p)] : p \in S}

\* player_games_count after the first k games of ord: GamePlayer rows of p.
GamesCounted(gs, ord, k, p) ==
    Cardinality({j \in 1 .. k : p \in gs[ord[j]].team1 \cup gs[ord[j]].team2})

\* The loop of recalculate_historical_snapshots over the games ord of season
\* sid: ratings f (in memory, from 1500) follow each game; after the last
\* game of a date the rows of that date are added for the players counted.
RECURSIVE SnapshotReplay(_, _, _, _, _, _)
SnapshotReplay(hs, f, gs, ord, k, sid) ==
    IF k > Len(ord) THEN hs
    ELSE LET g == gs[ord[k]]
             c == calculate_elo_change(DoubledAvg(f, g.team1),
                                       DoubledAvg(f, g.team2), g.s1, g.s2)
             f2 == [p \in DOMAIN f |->
                      IF p \in g.team1 THEN f[p] + c[1]
                      ELSE IF p \in g.team2 THEN f[p] + c[2] ELSE f[p]]
             endOfDate == k = Len(ord) \/ DateOf(gs[ord[k + 1]].t) # DateOf(g.t)
             S == {p \in DOMAIN f : GamesCounted(gs, ord, k, p) > 0}
             rows == {[player |-> p, season |-> sid, date |-> DateOf(g.t),
                       rank |-> RankIn(f2, S, p), elo |-> f2[p],
                       games |-> GamesCounted(gs, ord, k, p)] : p \in S}
         IN  SnapshotReplay(IF endOfDate THEN hs \cup rows ELSE hs,
                            f2, gs, ord, k + 1, sid)

\* A rebuild that replays the whole game table as one season, the first.
rebuild_as_one_season(ss, gs, ps) ==
    SnapshotReplay({}, [p \in ps |-> BaseElo], gs,
                   OrderByStartTime(gs, DOMAIN gs), 1, 1)

\* recalculate_historical_snapshots(): the table is emptied, then every
\* season is replayed on its own from 1500.
recalculate_historical_snapshots(ss, gs, ps) ==
    UNION {SnapshotReplay({}, [p \in ps |-> BaseElo], gs,
                          OrderByStartTime(gs, {i \in DOMAIN gs : gs[i].season = sid}),
                          1, sid) : sid \in DOMAIN ss}

-----------------------------------------------------------------------------
(* Recalculation after an edit: services/recalculation_service.py *)

\* recalculate_all_derived_data(season_id) on the games of the session. Step 1
\* clears the elo_change of the season's participants; step 2 is the call
\* recalculate_all_elo_ratings(season_id=season_id), which the function of
\* elo_service.py (no parameters) rejects with a TypeError, so the steps
\* after it (cake rebuild, snapshot rebuild, commit) are never reached.
\* Result: [raised, games], the session state when control leaves.
recalculate_all_derived_data(gs, sid) ==
    [raised |-> TRUE,
     games |-> [i \in DOMAIN gs |->
                  IF gs[i].season = sid THEN [gs[i] EXCEPT !.chg = <<>>] ELSE gs[i]]]

-----------------------------------------------------------------------------
(* Requests: blueprints/games.py, blueprints/leaderboard.py *)

EditWindowDays == 7

Roster == {1, 2}

\* Instants the clock takes, in order.
ClockValues == <<At(178, 43200), At(183, 43200), At(190, 43200)>>

\* start_time values of the forms: quarter 2 long ago, quarter 2 this week,
\* quarter 3.
StartTimes == {At(165, 36000), At(178, 32400), At(182, 36000)}

\* (team1_players, team2_players) and (team1_score, team2_score) of forms
\* that pass validation.
ValidTeams == {<<{1}, {2}>>, <<{2}, {1}>>}
ValidScores == {<<10, 0>>, <<3, 10>>}

\* Forms that do not: a draw, a score above 11, a negative score, a player on
\* both teams, an empty team (the last two dated in quarter 3).
InvalidForms ==
    { <<At(178, 32400), <<{1}, {2}>>, <<5, 5>>>>,
      <<At(178, 32400), <<{1}, {2}>>, <<12, 3>>>>,
      <<At(178, 32400), <<{1}, {2}>>, <<-1, 4>>>>,
      <<At(182, 36000), <<{1}, {1}>>, <<10, 0>>>>,
      <<At(182, 36000), <<{}, {2}>>, <<10, 0>>>> }

\* The forms submitted: <<start_time, teams, scores>>.
Forms == (StartTimes \X ValidTeams \X ValidScores) \cup InvalidForms

\* game_type as the form for the team sizes sends it.
TypeOf(t1, t2) ==
    IF Cardinality(t1) = 2 /\ Cardinality(t2) = 2 THEN "2v2"
    ELSE IF Cardinality(t1) = 2 \/ Cardinality(t2) = 2 THEN "2v1"
    ELSE "1v1"

\* A validation that only refuses draws.
ScoresDiffer(s1, s2) == s1 # s2

\* The three score checks of add_game, update_game and record_tournament_match.
ScoresValid(s1, s2) == ~(s1 < 0 \/ s2 < 0) /\ ~(s1 > 11 \/ s2 > 11) /\ s1 # s2

GameRow(t, sid, t1, t2, s1, s2) ==
    [t |-> t, season |-> sid, type |-> TypeOf(t1, t2), s1 |-> s1, s2 |-> s2,
     team1 |-> t1, team2 |-> t2, chg |-> <<>>]

Outcome(op, ok) == [op |-> op, ok |-> ok]

Tick ==
    /\ \E k \in 1 .. (Len(ClockValues) - 1) :
          now = ClockValues[k] /\ now' = ClockValues[k + 1]
    /\ last' = Outcome("tick", TRUE)
    /\ UNCHANGED <<elo, eloType, games, seasons, cake, hist, tstatus, seeds,
                   matches, audit, applied, pc>>

\* A leaderboard request for the "current" season: get_selected_season() calls
\* get_current_season(), which may roll the season over.
view_leaderboard ==
    LET r == get_current_season(seasons, now)
    IN  /\ seasons' = r.seasons
        /\ elo' = IF r.reset THEN [p \in DOMAIN elo |-> BaseElo] ELSE elo
        /\ last' = Outcome("current_season", r.ok)
        /\ UNCHANGED <<now, eloType, games, cake, hist, tstatus, seeds,
                       matches, audit, applied, pc>>

\* POST /games
add_game(t, t1, t2, s1, s2) ==
    /\ LET sr == get_season_for_date(seasons, t)
           g == GameRow(t, sr.id, t1, t2, s1, s2)
           ck == IF is_shutout(g) THEN update_cake_balance(cake, g) ELSE cake
       IN  IF ~ScoresValid(s1, s2)
           THEN \* early return before anything is written
                /\ last' = Outcome("add_game", FALSE)
                /\ UNCHANGED <<elo, eloType, games, seasons, cake, hist>>
           ELSE IF ~sr.ok \/ t1 \cap t2 # {} \/ t1 = {} \/ t2 = {}
           THEN \* create_season raised, or the duplicate-player return, or
                \* the division by zero of update_elo_ratings: the session is
                \* discarded, a season create_season committed stays
                /\ seasons' = sr.seasons
                /\ last' = Outcome("add_game", FALSE)
                /\ UNCHANGED <<elo, eloType, games, cake, hist>>
           ELSE LET u == update_elo_ratings([elo |-> elo, eloType |-> eloType], g)
                    gs == Append(games, [g EXCEPT !.chg = u.chg])
                IN  /\ seasons' = sr.seasons
                    /\ games' = gs
                    /\ cake' = ck
                    /\ elo' = u.elo
                    /\ eloType' = u.eloType
                    /\ hist' = create_daily_snapshot(hist, u.elo, gs, sr.id, DateOf(now))
                    /\ last' = Outcome("add_game", TRUE)
    /\ UNCHANGED <<now, tstatus, seeds, matches, audit, applied, pc>>

\* TournamentMatch.query.filter_by(game_id=game_id).first() is not None
TournamentLinked(gid) == \E m \in DOMAIN matches : matches[m].game = gid

\* An edit whose 7-day check looks at the start time submitted with the edit.
update_game_checks_new_time(gid, t, t1, t2, s1, s2) ==
    /\ gid \in DOMAIN games
    \* the audit log is capped at MaxEdits rows: after that only the requests
    \* the two immutability checks turn away are followed
    /\ \/ audit < MaxEdits
       \/ TournamentLinked(gid)
       \/ t < now - EditWindowDays * SecondsPerDay
    /\ LET old == games[gid]
           sr == get_season_for_date(seasons, t)
           edited == [games EXCEPT ![gid] = GameRow(t, sr.id, t1, t2, s1, s2)]
           rc == recalculate_all_derived_data(edited, old.season)
       IN  IF \/ TournamentLinked(gid)
              \/ t < now - EditWindowDays * SecondsPerDay
              \/ ~ScoresValid(s1, s2)
              \/ t1 \cap t2 # {}
           THEN /\ last' = Outcome("update_game", FALSE)
                /\ UNCHANGED <<games, seasons, audit>>
           ELSE IF ~sr.ok
           THEN /\ last' = Outcome("update_game", FALSE)
                /\ UNCHANGED <<games, seasons, audit>>
           ELSE \* the new facts are committed, then recalculation runs; when
                \* it raises, the handler rolls back what was not committed
                /\ seasons' = sr.seasons
                /\ games' = IF rc.raised THEN edited ELSE rc.games
                /\ audit' = audit + 1
                \* the edit and its audit row are committed (the response is
                \* the error alert of the except branch)
                /\ last' = Outcome("update_game", TRUE)
    /\ UNCHANGED <<now, elo, eloType, cake, hist, tstatus, seeds, matches, applied, pc>>

\* POST /games/<game_id>
update_game(gid, t, t1, t2, s1, s2) ==
    /\ gid \in DOMAIN games
    \* the audit log is capped at MaxEdits rows: after that only the requests
    \* the two immutability checks turn away are followed
    /\ \/ audit < MaxEdits
       \/ TournamentLinked(gid)
       \/ games[gid].t < now - EditWindowDays * SecondsPerDay
    /\ LET old == games[gid]
           sr == get_season_for_date(seasons, t)
           edited == [games EXCEPT ![gid] = GameRow(t, sr.id, t1, t2, s1, s2)]
           rc == recalculate_all_derived_data(edited, old.season)
       IN  IF \/ TournamentLinked(gid)
              \/ old.t < now - EditWindowDays * SecondsPerDay
              \/ ~ScoresValid(s1, s2)
              \/ t1 \cap t2 # {}
           THEN /\ last' = Outcome("update_game", FALSE)
                /\ UNCHANGED <<games, seasons, audit>>
           ELSE IF ~sr.ok
           THEN /\ last' = Outcome("update_game", FALSE)
                /\ UNCHANGED <<games, seasons, audit>>
           ELSE \* the new facts are committed, then recalculation runs; when
                \* it raises, the handler rolls back what was not committed
                /\ seasons' = sr.seasons
                /\ games' = IF rc.raised THEN edited ELSE rc.games
                /\ audit' = audit + 1
                \* the edit and its audit row are committed (the response is
                \* the error alert of the except branch)
                /\ last' = Outcome("update_game", TRUE)
    /\ UNCHANGED <<now, elo, eloType, cake, hist, tstatus, seeds, matches, applied, pc>>

\* The workers serving requests, and a worker that is in no call.
Workers == {1, 2}
Idle == [at |-> "idle", year |-> 0, quarter |-> 0, id |-> NoId]
NoCalls == pc = [w \in Workers |-> Idle]

NoTournament == tstatus = "none" /\ seeds = <<>> /\ matches = <<>>

Init ==
    /\ now = ClockValues[1]
    /\ elo = [p \in Roster |-> BaseElo]
    /\ eloType = [p \in Roster |-> [ty \in GameTypes |-> BaseElo]]
    /\ games = <<>>
    /\ seasons = <<SeasonRow(get_quarter_info(now)[2], get_quarter_info(now)[1], TRUE)>>
    /\ cake = {}
    /\ hist = {}
    /\ NoTournament
    /\ audit = 0
    /\ applied = {}
    /\ NoCalls
    /\ last = Outcome("init", TRUE)

Record ==
    /\ Len(games) < MaxGames
    /\ \E f \in Forms : add_game(f[1], f[2][1], f[2][2], f[3][1], f[3][2])

\* Edit forms always name a player for each team.
Edit ==
    \E gid \in DOMAIN games, f \in Forms :
        /\ f[2][1] # {} /\ f[2][2] # {}
        /\ update_game(gid, f[1], f[2][1], f[2][2], f[3][1], f[3][2])

Next == Tick \/ view_leaderboard \/ Record

Spec == Init /\ [][Next]_vars

NextEdit == Tick \/ view_leaderboard \/ Record \/ Edit

SpecEdit == Init /\ [][NextEdit]_vars

-----------------------------------------------------------------------------
(* The season resolver on its own: dates around the quarter ends *)

\* Dates handed to get_season_for_date: 28 March 12:00, 29 March 12:00, the
\* last second of 31 March, 1 April 00:00, the last second of 30 June, 1 July
\* 00:00, the last second of 31 December, 10 January of the next year.
SeasonDates ==
    {At(86, 43200), At(87, 43200), At(89, 86399), At(90, 0), At(180, 86399),
     At(181, 0), At(364, 86399), At(374, 43200)}

\* get_season_for_date(date) as add_game and update_game call it.
season_for_date(d) ==
    /\ seasons' = get_season_for_date(seasons, d).seasons
    /\ last' = Outcome("season_for_date", get_season_for_date(seasons, d).ok)
    /\ UNCHANGED <<now, elo, eloType, games, cake, hist, tstatus, seeds,
                   matches, audit, applied, pc>>

ResolveDate == \E d \in SeasonDates : season_for_date(d)

NextSeason == Tick \/ view_leaderboard \/ ResolveDate

SpecSeason == Init /\ [][NextSeason]_vars

-----------------------------------------------------------------------------
(* get_current_season() run by two workers at once: each commit is a step   *)

\* now = datetime.utcnow() and the query for the flagged season; the call
\* returns at once when that season has not ended.
cs_read(w) ==
    /\ pc[w].at = "idle"
    /\ LET c == CurrentSeason(seasons)
           qy == IF c # NoId THEN get_quarter_info(seasons[c].end + SecondsPerDay)
                 ELSE get_quarter_info(now)
       IN  IF c # NoId /\ ~(now > seasons[c].end)
           THEN /\ pc' = [pc EXCEPT ![w] = [Idle EXCEPT !.at = "returned", !.id = c]]
                /\ last' = Outcome("current_season", TRUE)
           ELSE /\ pc' = [pc EXCEPT ![w] = [at |-> "create", year |-> qy[2],
                                            quarter |-> qy[1], id |-> NoId]]
                /\ UNCHANGED last
    /\ UNCHANGED <<now, elo, eloType, games, seasons, cake, hist, tstatus,
                   seeds, matches, audit, applied>>

\* create_season(year, quarter) and its commit; IntegrityError ends the call.
cs_create(w) ==
    /\ pc[w].at = "create"
    /\ IF CanCreateSeason(seasons, pc[w].year, pc[w].quarter)
       THEN /\ seasons' = create_season(seasons, pc[w].year, pc[w].quarter)
            /\ pc' = [pc EXCEPT ![w] = [@ EXCEPT !.at = "transition",
                                                 !.id = Len(seasons) + 1]]
            /\ UNCHANGED last
       ELSE /\ pc' = [pc EXCEPT ![w] = [@ EXCEPT !.at = "failed"]]
            /\ last' = Outcome("current_season", FALSE)
            /\ UNCHANGED seasons
    /\ UNCHANGED <<now, elo, eloType, games, cake, hist, tstatus, seeds,
                   matches, audit, applied>>

\* transition_to_season(new_season) and its commit.
cs_transition(w) ==
    /\ pc[w].at = "transition"
    /\ seasons' = transition_to_season(seasons, pc[w].id)
    /\ elo' = [p \in DOMAIN elo |-> BaseElo]
    /\ pc' = [pc EXCEPT ![w] = [@ EXCEPT !.at = "rolled"]]
    /\ last' = Outcome("current_season", TRUE)
    /\ UNCHANGED <<now, eloType, games, cake, hist, tstatus, seeds, matches,
                   audit, applied>>

CurrentSeasonStep == \E w \in Workers : cs_read(w) \/ cs_create(w) \/ cs_transition(w)

\* add_game while the two calls are under way.
RecordBetween ==
    /\ Len(games) < MaxBetween
    /\ \E f \in Forms : add_game(f[1], f[2][1], f[2][2], f[3][1], f[3][2])

NextRollover == Tick \/ RecordBetween \/ CurrentSeasonStep

SpecRollover == Init /\ [][NextRollover]_vars

-----------------------------------------------------------------------------
(* Tournament requests: blueprints/tournaments.py *)

\* Outcomes of random.shuffle on the n selected players (ids 1 .. n): the n
\* cyclic orders, so that a seed and the id of the player holding it differ.
Shuffles(n) == {[i \in 1 .. n |-> ((i + k) % n) + 1] : k \in 0 .. (n - 1)}

\* (team1_score, team2_score) of the match forms.
MatchScores == {<<10, 0>>, <<5, 10>>, <<5, 5>>, <<12, 3>>, <<-1, 4>>}

\* POST /api/tournaments with n player ids, shuffled into sd by
\* generate_tournament_bracket.
create_tournament(n, sd) ==
    /\ tstatus = "none"
    /\ IF n < 2
       THEN /\ last' = Outcome("create_tournament", FALSE)
            /\ UNCHANGED <<tstatus, seeds, matches>>
       ELSE /\ sd \in Shuffles(n)
            /\ seeds' = sd
            /\ matches' = generate_tournament_bracket(sd)
            /\ tstatus' = "active"
            /\ last' = Outcome("create_tournament", TRUE)
    /\ UNCHANGED <<now, elo, eloType, games, seasons, cake, hist, audit, applied, pc>>

\* Some match that has been played (the final when there is none).
AnyPlayed(ms) ==
    IF \E id \in DOMAIN ms : ms[id].game # NoId
    THEN CHOOSE id \in DOMAIN ms : ms[id].game # NoId
    ELSE CHOOSE id \in DOMAIN ms : ms[id].round = 1

\* TournamentMatch.query.filter_by(tournament_id, round_number=1).first()
Finals(ms) == CHOOSE id \in DOMAIN ms : ms[id].round = 1

\* A handler that accepts a result for a match that already has a winner.
record_without_completed_check(m, s1, s2) ==
    /\ m \in DOMAIN matches
    /\ IF \/ matches[m].p1 = NoId \/ matches[m].p2 = NoId
          \/ ~ScoresValid(s1, s2)
       THEN /\ last' = Outcome("record_match", FALSE)
            /\ UNCHANGED <<elo, eloType, games, matches, tstatus>>
       ELSE LET winner == IF s1 > s2 THEN matches[m].p1 ELSE matches[m].p2
                \* Game(game_type="1v1", scores, start_time=now): no season_id
                g == [t |-> now, season |-> NoId, type |-> "1v1",
                      s1 |-> s1, s2 |-> s2,
                      team1 |-> {matches[m].p1}, team2 |-> {matches[m].p2},
                      chg |-> <<>>]
            IN  \E u \in {update_elo_ratings([elo |-> elo, eloType |-> eloType], g)},
                   ms \in {advance_winner(
                          [matches EXCEPT ![m].winner = winner,
                                          ![m].game = Len(games) + 1],
                          m, FALSE)} :
                /\ games' = Append(games, [g EXCEPT !.chg = u.chg])
                /\ elo' = u.elo
                /\ eloType' = u.eloType
                /\ matches' = ms
                /\ tstatus' = IF ms[Finals(ms)].winner # NoId /\ ms[Finals(ms)].game # NoId
                              THEN "completed" ELSE tstatus
                /\ last' = Outcome("record_match", TRUE)
    /\ UNCHANGED <<now, seasons, cake, hist, seeds, audit, applied, pc>>

\* POST /api/tournaments/<tournament_id>/matches/<match_id>
record_tournament_match(m, s1, s2) ==
    /\ m \in DOMAIN matches
    /\ IF \/ matches[m].winner # NoId
          \/ matches[m].p1 = NoId \/ matches[m].p2 = NoId
          \/ ~ScoresValid(s1, s2)
       THEN /\ last' = Outcome("record_match", FALSE)
            /\ UNCHANGED <<elo, eloType, games, matches, tstatus>>
       ELSE LET winner == IF s1 > s2 THEN matches[m].p1 ELSE matches[m].p2
                \* Game(game_type="1v1", scores, start_time=now): no season_id
                g == [t |-> now, season |-> NoId, type |-> "1v1",
                      s1 |-> s1, s2 |-> s2,
                      team1 |-> {matches[m].p1}, team2 |-> {matches[m].p2},
                      chg |-> <<>>]
            IN  \E u \in {update_elo_ratings([elo |-> elo, eloType |-> eloType], g)},
                   ms \in {advance_winner(
                          [matches EXCEPT ![m].winner = winner,
                                          ![m].game = Len(games) + 1],
                          m, FALSE)} :
                /\ games' = Append(games, [g EXCEPT !.chg = u.chg])
                /\ elo' = u.elo
                /\ eloType' = u.eloType
                /\ matches' = ms
                \* create_daily_snapshot() is called without its season_id
                \* argument: the TypeError is caught and printed
                /\ tstatus' = IF ms[Finals(ms)].winner # NoId /\ ms[Finals(ms)].game # NoId
                              THEN "completed" ELSE tstatus
                /\ last' = Outcome("record_match", TRUE)
    /\ UNCHANGED <<now, seasons, cake, hist, seeds, audit, applied, pc>>

InitTournament ==
    /\ now = ClockValues[1]
    /\ elo = [p \in 1 .. MaxEntrants |-> BaseElo]
    /\ eloType = [p \in 1 .. MaxEntrants |-> [ty \in GameTypes |-> BaseElo]]
    /\ games = <<>>
    /\ seasons = <<SeasonRow(get_quarter_info(now)[2], get_quarter_info(now)[1], TRUE)>>
    /\ cake = {}
    /\ hist = {}
    /\ NoTournament
    /\ audit = 0
    /\ applied = {}
    /\ NoCalls
    /\ last = Outcome("init", TRUE)

Create ==
    \E n \in 0 .. MaxEntrants :
        \E sd \in IF n < 2 THEN {<<>>} ELSE Shuffles(n) : create_tournament(n, sd)

RecordMatch ==
    \E m \in DOMAIN matches, sc \in MatchScores :
        record_tournament_match(m, sc[1], sc[2])

NextTournament == Create \/ RecordMatch

SpecTournament == InitTournament /\ [][NextTournament]_vars

\* A valid result submitted for a match that has its two players and no
\* winner yet.
RecordValid ==
    \E m \in DOMAIN matches :
        /\ matches[m].p1 # NoId /\ matches[m].p2 # NoId /\ matches[m].winner = NoId
        /\ \E sc \in {x \in MatchScores : ScoresValid(x[1], x[2])} :
              record_tournament_match(m, sc[1], sc[2])

\* The tournament when results keep coming in: as long as some match is ready
\* to be played, a valid result for a ready match is eventually submitted.
SpecTournamentPlayed ==
    InitTournament /\ [][NextTournament]_vars /\ WF_vars(RecordValid)

\* Bracket generation alone, for larger fields.
CreateWide ==
    \E n \in 0 .. MaxBracket :
        \E sd \in IF n < 2 THEN {<<>>} ELSE Shuffles(n) : create_tournament(n, sd)

SpecBracket == InitTournament /\ [][CreateWide]_vars

-----------------------------------------------------------------------------
(* Replay against game-by-game application: a stored game log is applied one  *)
(* game at a time, oldest first.                                              *)

ReplayRoster == {1, 2, 3, 4}

\* Rows a game log may hold: a 1v1, a 2v1 and a 2v2 line-up, either side
\* winning, at two instants of quarter 2.
ReplayRows ==
    {GameRow(t, 1, tm[1], tm[2], sc[1], sc[2]) :
        t \in {At(165, 36000), At(178, 32400)},
        tm \in {<<{1}, {2}>>, <<{1, 2}, {3}>>, <<{1, 3}, {2, 4}>>},
        sc \in ValidScores}

InitReplay ==
    /\ now = ClockValues[1]
    /\ elo = [p \in ReplayRoster |-> BaseElo]
    /\ eloType = [p \in ReplayRoster |-> [ty \in GameTypes |-> BaseElo]]
    /\ games \in UNION {[1 .. n -> ReplayRows] : n \in 0 .. MaxLog}
    /\ seasons = <<SeasonRow(get_quarter_info(now)[2], get_quarter_info(now)[1], TRUE)>>
    /\ cake = {}
    /\ hist = {}
    /\ NoTournament
    /\ audit = 0
    /\ applied = {}
    /\ NoCalls
    /\ last = Outcome("init", TRUE)

\* update_elo_ratings on the oldest game not applied yet (of two games with
\* the same start time, the one with the smaller id).
apply_game(i) ==
    /\ i \in DOMAIN games \ applied
    /\ \A j \in DOMAIN games \ applied :
          j # i => \/ games[i].t < games[j].t
                   \/ (games[i].t = games[j].t /\ i < j)
    /\ LET u == update_elo_ratings([elo |-> elo, eloType |-> eloType], games[i])
       IN  /\ elo' = u.elo
           /\ eloType' = u.eloType
           /\ games' = [games EXCEPT ![i].chg = u.chg]
    /\ applied' = applied \cup {i}
    /\ last' = Outcome("apply_game", TRUE)
    /\ UNCHANGED <<now, seasons, cake, hist, tstatus, seeds, matches, audit, pc>>

ApplyNext == \E i \in DOMAIN games : apply_game(i)

SpecReplay == InitReplay /\ [][ApplyNext]_vars

\* recalculate_all_elo_ratings() run from recalculate_elo.py, whatever the
\* ratings stored at that moment.
recalculate_elo ==
    /\ \E r \in {ReplayChanges(ResetRatings(DOMAIN elo), games,
                                 OrderByStartTime(games, DOMAIN games), 1)} :
          elo' = r.elo /\ eloType' = r.eloType /\ games' = r.games
    /\ applied' = DOMAIN games
    /\ last' = Outcome("recalculate", TRUE)
    /\ UNCHANGED <<now, seasons, cake, hist, tstatus, seeds, matches, audit, pc>>

NextRecalc == ApplyNext \/ recalculate_elo

SpecRecalc == InitReplay /\ [][NextRecalc]_vars

-----------------------------------------------------------------------------
(* The edit window: one game recorded, then edited while the clock moves on.  *)

MaxWindow == 1      \* game rows recorded in the edit-window specification

\* Start times of the forms: 22 March (quarter 1), 28 June, 2 July.
WindowTimes == {At(80, 36000), At(178, 32400), At(182, 36000)}

\* The forms: player 1 against player 2, either side winning.
WindowForms == WindowTimes \X {<<{1}, {2}>>} \X ValidScores

RecordWindow ==
    /\ Len(games) < MaxWindow
    /\ \E f \in WindowForms : add_game(f[1], f[2][1], f[2][2], f[3][1], f[3][2])

EditWindow ==
    \E gid \in DOMAIN games, f \in WindowForms :
        update_game(gid, f[1], f[2][1], f[2][2], f[3][1], f[3][2])

NextWindow == Tick \/ RecordWindow \/ EditWindow

SpecWindow == Init /\ [][NextWindow]_vars

-----------------------------------------------------------------------------
(* Cake ledger under team games: games recorded through add_game in any     *)
(* order of their start times, and the ledger rebuilt from the game table.   *)

CakeRoster == {1, 2, 3, 4}

\* The forms submitted: 1v1, 2v2 and 2v1 line-ups, shutouts for either side
\* and games that are no shutout, at two instants of quarter 2.
CakeForms ==
    { <<At(165, 36000), <<{1}, {2}>>, <<10, 0>>>>,
      <<At(178, 32400), <<{1}, {2}>>, <<0, 10>>>>,
      <<At(178, 32400), <<{1, 2}, {3, 4}>>, <<11, 1>>>>,
      <<At(165, 36000), <<{1, 3}, {2}>>, <<0, 10>>>>,
      <<At(165, 36000), <<{1}, {2}>>, <<10, 3>>>>,
      <<At(178, 32400), <<{1, 2}, {3, 4}>>, <<3, 10>>>> }

InitCake ==
    /\ now = ClockValues[1]
    /\ elo = [p \in CakeRoster |-> BaseElo]
    /\ eloType = [p \in CakeRoster |-> [ty \in GameTypes |-> BaseElo]]
    /\ games = <<>>
    /\ seasons = <<SeasonRow(get_quarter_info(now)[2], get_quarter_info(now)[1], TRUE)>>
    /\ cake = {}
    /\ hist = {}
    /\ NoTournament
    /\ audit = 0
    /\ applied = {}
    /\ NoCalls
    /\ last = Outcome("init", TRUE)

RecordTeam ==
    /\ Len(games) < MaxLog
    /\ \E f \in CakeForms : add_game(f[1], f[2][1], f[2][2], f[3][1], f[3][2])

\* Step 3 of recalculate_all_derived_data for all seasons, on its own.
rebuild_ledger ==
    /\ cake' = rebuild_cake_balances(games)
    /\ last' = Outcome("rebuild_cake", TRUE)
    /\ UNCHANGED <<now, elo, eloType, games, seasons, hist, tstatus, seeds,
                   matches, audit, applied, pc>>

NextCake == RecordTeam \/ rebuild_ledger

SpecCake == InitCake /\ [][NextCake]_vars

-----------------------------------------------------------------------------
(* Snapshots: games recorded on and after their date, the season rolled     *)
(* over, and recalculate_elo.py                                             *)

HistoryRoster == {1, 2, 3}

\* Forms: a game of this week, a game dated two weeks back with another
\* player, a game dated in quarter 3, a team game of this week.
HistoryForms ==
    { <<At(178, 32400), <<{1}, {2}>>, <<10, 0>>>>,
      <<At(165, 36000), <<{1}, {3}>>, <<3, 10>>>>,
      <<At(182, 36000), <<{1}, {2}>>, <<10, 5>>>>,
      <<At(178, 32400), <<{2, 3}, {1}>>, <<3, 10>>>> }

InitHistory ==
    /\ now = ClockValues[1]
    /\ elo = [p \in HistoryRoster |-> BaseElo]
    /\ eloType = [p \in HistoryRoster |-> [ty \in GameTypes |-> BaseElo]]
    /\ games = <<>>
    /\ seasons = <<SeasonRow(get_quarter_info(now)[2], get_quarter_info(now)[1], TRUE)>>
    /\ cake = {}
    /\ hist = {}
    /\ NoTournament
    /\ audit = 0
    /\ applied = {}
    /\ NoCalls
    /\ last = Outcome("init", TRUE)

RecordDated ==
    /\ Len(games) < MaxDated
    /\ \E f \in HistoryForms : add_game(f[1], f[2][1], f[2][2], f[3][1], f[3][2])

\* Step 2 of recalculate_elo.py, after its step 1 (recalculate_elo).
rebuild_history ==
    /\ last = Outcome("recalculate", TRUE)
    /\ hist' = recalculate_historical_snapshots(seasons, games, DOMAIN elo)
    /\ last' = Outcome("rebuild_history", TRUE)
    /\ UNCHANGED <<now, elo, eloType, games, seasons, cake, tstatus, seeds,
                   matches, audit, applied, pc>>

NextHistory ==
    Tick \/ view_leaderboard \/ RecordDated \/ recalculate_elo \/ rebuild_history

SpecHistory == InitHistory /\ [][NextHistory]_vars


-----------------------------------------------------------------------------
(* Properties *)

\* C1: after any sequence of add_game requests (recorded in an order other
\* than that of their start times, dated in a season that is not current,
\* with a season rollover in between), every player's stored global rating
\* equals the rating recalculate_all_elo_ratings computes from the game table.
C1_StoredEqualsReplay ==
    \A p \in DOMAIN elo :
        elo[p] = recalculate_all_elo_ratings(DOMAIN elo, games).elo[p]

\* C2: for every game log, all ratings at 1500 and update_elo_ratings applied
\* once per game in ascending start-time order give every player the global
\* rating and the per-game-type ratings of recalculate_all_elo_ratings.
C2_ReplayEqualsIncremental ==
    applied = DOMAIN games =>
        /\ elo = recalculate_all_elo_ratings(DOMAIN elo, games).elo
        /\ eloType = recalculate_all_elo_ratings(DOMAIN elo, games).eloType

\* A log of three games stored out of start-time order, with a 2v1 and a 2v2
\* game, applied to the end.
C2_Witness ==
    /\ Len(games) >= 3
    /\ applied = DOMAIN games
    /\ games[1].t > games[2].t
    /\ \E i, j \in DOMAIN games : games[i].type = "2v1" /\ games[j].type = "2v2"
    /\ \E p \in DOMAIN elo : elo[p] # BaseElo /\ eloType[p]["2v1"] # BaseElo

\* C3: after an accepted edit (all games in the one season of the table, where
\* the recomputation of the season and of the whole table coincide) the
\* ratings and the cake balances are those computed from scratch from the
\* edited game table.
C3_EditRecalculatesAll ==
    (/\ last = Outcome("update_game", TRUE)
     /\ Len(seasons) = 1
     /\ \A i \in DOMAIN games : games[i].season = 1)
    => /\ elo = recalculate_all_elo_ratings(DOMAIN elo, games).elo
       /\ eloType = recalculate_all_elo_ratings(DOMAIN elo, games).eloType
       /\ cake = rebuild_cake_balances(games)

IsFirstRound(id) == \A j \in DOMAIN matches : matches[j].next # id

\* C5: after generation (no game played yet) every first-round match with one
\* player and one bye has that player as winner and no linked game; no other
\* match has a winner while a match feeding it has none; and with five
\* players the semifinal fed by seed 1's bye and by seed 4 v seed 5 has no
\* winner.
C5_ByeHandling ==
    (tstatus = "active" /\ games = <<>>) =>
        /\ \A id \in DOMAIN matches :
              IsFirstRound(id) =>
                  /\ (matches[id].p1 # NoId /\ matches[id].p2 = NoId) =>
                        (matches[id].winner = matches[id].p1 /\ matches[id].game = NoId)
                  /\ (matches[id].p2 # NoId /\ matches[id].p1 = NoId) =>
                        (matches[id].winner = matches[id].p2 /\ matches[id].game = NoId)
        /\ \A id \in DOMAIN matches :
              (~IsFirstRound(id) /\ matches[id].winner # NoId) =>
                  \A j \in DOMAIN matches :
                      matches[j].next = id => matches[j].winner # NoId
        /\ Len(seeds) = 5 =>
              \E a, b \in DOMAIN matches :
                  /\ IsFirstRound(a) /\ IsFirstRound(b)
                  /\ seeds[1] \in {matches[a].p1, matches[a].p2}
                  /\ {matches[b].p1, matches[b].p2} = {seeds[4], seeds[5]}
                  /\ matches[a].next = matches[b].next
                  /\ matches[a].next # NoId
                  /\ matches[matches[a].next].winner = NoId

\* Five players: seed 1 has won its first-round match without a game and
\* waits in a semifinal that has no winner.
C5_Witness ==
    /\ tstatus = "active" /\ games = <<>> /\ Len(seeds) = 5
    /\ \E a \in DOMAIN matches :
          /\ IsFirstRound(a)
          /\ matches[a].winner = seeds[1] /\ matches[a].game = NoId
          /\ NoId \in {matches[a].p1, matches[a].p2}
          /\ matches[matches[a].next].p1 = seeds[1]
          /\ matches[matches[a].next].winner = NoId

\* The first-round slots <<match, 1 or 2>> that hold player p.
SlotsOf(p) ==
    {sl \in (DOMAIN matches) \X {1, 2} :
        /\ IsFirstRound(sl[1])
        /\ p = (IF sl[2] = 1 THEN matches[sl[1]].p1 ELSE matches[sl[1]].p2)}

\* C6: for n players the bracket has 2^ceil(log2 n) - 1 matches forming one
\* binary tree rooted at the final: exactly the final has no next match,
\* every other match feeds one match of the round above, every match outside
\* the first round is fed by exactly two matches, and every seed 1..n sits in
\* exactly one first-round slot.
C6_BracketComplete ==
    (tstatus = "active" /\ games = <<>>) =>
        /\ \E R \in 1 .. 8 :
              /\ 2^R >= Len(seeds) /\ 2^(R - 1) < Len(seeds)
              /\ Cardinality(DOMAIN matches) = 2^R - 1
              /\ \A id \in DOMAIN matches : IsFirstRound(id) <=> matches[id].round = R
        /\ Cardinality({id \in DOMAIN matches : matches[id].next = NoId}) = 1
        /\ \A id \in DOMAIN matches :
              /\ matches[id].next = NoId <=> matches[id].round = 1
              /\ matches[id].next # NoId =>
                    /\ matches[id].next \in DOMAIN matches
                    /\ matches[matches[id].next].round = matches[id].round - 1
              /\ ~IsFirstRound(id) =>
                    Cardinality({j \in DOMAIN matches : matches[j].next = id}) = 2
        /\ \A sd \in DOMAIN seeds : Cardinality(SlotsOf(seeds[sd])) = 1

\* A generated bracket for eleven players (fifteen matches, five byes).
C6_Witness ==
    /\ tstatus = "active" /\ Len(seeds) = 11 /\ Len(matches) = 15
    /\ Cardinality(SlotsOf(NoId)) = 5

\* The match below the final that the subtree of match id hangs from.
RECURSIVE HalfOf(_)
HalfOf(id) ==
    IF matches[id].next = NoId \/ matches[matches[id].next].next = NoId THEN id
    ELSE HalfOf(matches[id].next)

\* C7: in a bracket of at least two rounds seed 1 and seed 2 start in opposite
\* halves of the tree, and in no state reached by recording results does a
\* match other than the final have seed 1 and seed 2 as its two players.
C7_TopSeedsMeetInFinal ==
    (tstatus # "none" /\ Len(matches) >= 3) =>
        /\ \A sl1 \in SlotsOf(seeds[1]), sl2 \in SlotsOf(seeds[2]) :
              HalfOf(sl1[1]) # HalfOf(sl2[1])
        /\ \A id \in DOMAIN matches :
              matches[id].next # NoId =>
                  {matches[id].p1, matches[id].p2} # {seeds[1], seeds[2]}

\* Seed 1 and seed 2 have won through a three-round bracket and stand in the
\* final.
C7_Witness ==
    /\ tstatus = "active" /\ Len(matches) >= 7
    /\ \E id \in DOMAIN matches :
          /\ matches[id].round = 1
          /\ {matches[id].p1, matches[id].p2} = {seeds[1], seeds[2]}

SeedOf(p) == CHOOSE sd \in DOMAIN seeds : seeds[sd] = p

\* C8: with n players in a bracket of size S, S - n first-round slots are
\* empty, no first-round match is empty on both sides, the players alone in
\* their first-round match are exactly seeds 1..S-n, and two players who share
\* a first-round match hold seeds s and S + 1 - s.
C8_ByesToTopSeeds ==
    (tstatus = "active" /\ games = <<>>) =>
        LET n == Len(seeds)
            S == Len(matches) + 1
            alone == {p \in {seeds[sd] : sd \in DOMAIN seeds} :
                        \E id \in DOMAIN matches :
                            /\ IsFirstRound(id)
                            /\ {matches[id].p1, matches[id].p2} = {p, NoId}}
        IN  /\ Cardinality(SlotsOf(NoId)) = S - n
            /\ \A id \in DOMAIN matches :
                  IsFirstRound(id) => (matches[id].p1 # NoId \/ matches[id].p2 # NoId)
            /\ alone = {seeds[sd] : sd \in 1 .. (S - n)}
            /\ \A id \in DOMAIN matches :
                  (IsFirstRound(id) /\ matches[id].p1 # NoId /\ matches[id].p2 # NoId) =>
                      SeedOf(matches[id].p1) + SeedOf(matches[id].p2) = S + 1

\* Thirteen players: seeds 1, 2 and 3 alone in their first-round matches,
\* seed 4 paired with seed 13.
C8_Witness ==
    /\ tstatus = "active" /\ Len(seeds) = 13
    /\ Cardinality(SlotsOf(NoId)) = 3
    /\ \E id \in DOMAIN matches :
          IsFirstRound(id) /\ {matches[id].p1, matches[id].p2} = {seeds[4], seeds[13]}

\* C9: a result posted for a match that already has a winner, for a match
\* with a missing player, or with a score below 0, above 11 or equal to the
\* other is rejected and leaves every match, game, rating and the tournament
\* status as they were.
C9_RejectedResultChangesNothing ==
    [][\A m \in DOMAIN matches, sc \in MatchScores :
          (/\ \/ matches[m].winner # NoId
              \/ matches[m].p1 = NoId \/ matches[m].p2 = NoId
              \/ sc[1] < 0 \/ sc[2] < 0 \/ sc[1] > 11 \/ sc[2] > 11
              \/ sc[1] = sc[2]
           /\ record_tournament_match(m, sc[1], sc[2]))
          => /\ last' = Outcome("record_match", FALSE)
             /\ UNCHANGED <<matches, games, elo, eloType, tstatus>>]_vars

\* A result was refused in a tournament that has a played match, a match
\* waiting for a player and a match ready to be played.
C9_Witness ==
    /\ last = Outcome("record_match", FALSE)
    /\ \E a, b, c \in DOMAIN matches :
          /\ matches[a].winner # NoId /\ matches[a].game # NoId
          /\ matches[b].winner = NoId /\ NoId \in {matches[b].p1, matches[b].p2}
          /\ matches[c].winner = NoId /\ NoId \notin {matches[c].p1, matches[c].p2}

\* Cakes debtor d owes creditor c in the ledger ck.
CakeOwed(ck, d, c) ==
    IF \E r \in ck : r.debtor = d /\ r.creditor = c
    THEN (CHOOSE r \in ck : r.debtor = d /\ r.creditor = c).balance
    ELSE 0

\* C10: an accepted match result adds a game, moves the winner's rating up
\* and the loser's down, and after a shutout (score difference of 10 or more)
\* the loser owes the winner one cake more than before.
C10_MatchFeedsRatingAndCake ==
    [][\A m \in DOMAIN matches, sc \in MatchScores :
          (/\ record_tournament_match(m, sc[1], sc[2])
           /\ last' = Outcome("record_match", TRUE))
          => LET w == IF sc[1] > sc[2] THEN matches[m].p1 ELSE matches[m].p2
                 l == IF sc[1] > sc[2] THEN matches[m].p2 ELSE matches[m].p1
             IN  /\ Len(games') = Len(games) + 1
                 /\ elo'[w] > elo[w] /\ elo'[l] < elo[l]
                 /\ (sc[1] - sc[2] >= 10 \/ sc[2] - sc[1] >= 10) =>
                        CakeOwed(cake', l, w) = CakeOwed(cake, l, w) + 1]_vars

\* C11: an accepted match result sets winner and game on the recorded match
\* only, places the winner in one slot of the next match (slot 1 when the
\* recorded match is the lower-numbered feeder, slot 2 otherwise) and changes
\* no other match, also when the other slot of the next match is empty.
C11_AdvanceOneStep ==
    [][\A m \in DOMAIN matches, sc \in MatchScores :
          (/\ last' = Outcome("record_match", TRUE)
           /\ record_tournament_match(m, sc[1], sc[2]))
          => LET w == IF sc[1] > sc[2] THEN matches[m].p1 ELSE matches[m].p2
                 nxt == matches[m].next
                 lower == \A j \in DOMAIN matches :
                             matches[j].next = nxt => matches[m].num <= matches[j].num
             IN  /\ DOMAIN matches' = DOMAIN matches
                 /\ matches'[m] = [matches[m] EXCEPT !.winner = w,
                                                     !.game = Len(games) + 1]
                 /\ \A id \in DOMAIN matches \ {m, nxt} : matches'[id] = matches[id]
                 /\ nxt # NoId =>
                       matches'[nxt] = IF lower THEN [matches[nxt] EXCEPT !.p1 = w]
                                       ELSE [matches[nxt] EXCEPT !.p2 = w]]_vars

\* A semifinal has just been played and its winner waits in the final, whose
\* other slot is empty and which has no winner.
C11_Witness ==
    /\ last = Outcome("record_match", TRUE)
    /\ \E m \in DOMAIN matches :
          /\ matches[m].game = Len(games)
          /\ matches[m].next # NoId
          /\ matches[matches[m].next].next = NoId
          /\ matches[matches[m].next].winner = NoId
          /\ {matches[matches[m].next].p1, matches[matches[m].next].p2}
                = {matches[m].winner, NoId}

GameOrders(n) ==
    {f \in [1 .. n -> 1 .. n] : \A i, j \in 1 .. n : f[i] = f[j] => i = j}

\* C13: the ledger rebuilt from the games of the table taken in any order has
\* for every (debtor, creditor) pair the balance of the rebuild in start-time
\* order.
C13_CakeOrderIndependent ==
    \A ord \in GameOrders(Len(games)) :
        \A d, c \in DOMAIN elo :
            CakeOwed(RebuildFrom({}, games, ord, 1), d, c)
                = CakeOwed(rebuild_cake_balances(games), d, c)

\* Three games stored out of start-time order, shutouts between different
\* pairs among them and a game that is no shutout.
C13_Witness ==
    /\ Len(games) = 3
    /\ games[1].t > games[2].t
    /\ Cardinality(cake) >= 5
    /\ \E i \in DOMAIN games : ~is_shutout(games[i])
    /\ last = Outcome("rebuild_cake", TRUE)

\* Cakes debtor d owes creditor c in the rows of season sid of the ledger ck.
CakeOwedIn(ck, d, c, sid) ==
    IF \E r \in ck : r.debtor = d /\ r.creditor = c /\ r.season = sid
    THEN (CHOOSE r \in ck : r.debtor = d /\ r.creditor = c /\ r.season = sid).balance
    ELSE 0

\* C14: cake balances are kept per season: for every season and every ordered
\* pair (d, c) the balance of the pair in that season is the number of
\* shutouts among the games of that season with d losing and c winning, so a
\* shutout moves the balance of its own season only.
C14_CakeScopedToSeason ==
    \A sid \in DOMAIN seasons :
        \A d, c \in DOMAIN elo :
            CakeOwedIn(cake, d, c, sid) =
                Cardinality({i \in DOMAIN games :
                    /\ games[i].season = sid
                    /\ \/ (games[i].s1 - games[i].s2 >= 10
                              /\ d \in games[i].team2 /\ c \in games[i].team1)
                       \/ (games[i].s2 - games[i].s1 >= 10
                              /\ d \in games[i].team1 /\ c \in games[i].team2)})

C16_EveryGameHasSeason ==
    \A i \in DOMAIN games :
        /\ games[i].season # NoId
        /\ games[i].season \in DOMAIN seasons
        /\ seasons[games[i].season].start <= games[i].t
        /\ games[i].t <= seasons[games[i].season].end

\* C17: in every state in which at least one season exists, exactly one
\* season has is_current set, whether the seasons were created for the date
\* of a game, for the current date or by a rollover.
C17_ExactlyOneCurrent ==
    seasons # <<>> => Cardinality({i \in DOMAIN seasons : seasons[i].cur}) = 1

\* A rollover took place after a game was recorded: the old season lost the
\* flag and the new one carries it.
C17_Witness ==
    /\ last = Outcome("current_season", TRUE)
    /\ Len(games) >= 1
    /\ Len(seasons) = 2
    /\ ~seasons[1].cur /\ seasons[2].cur

\* C18: a current_season() call made while the flagged season's range no
\* longer contains now returns the season whose range contains now, and that
\* season is then the only one flagged current, whether or not the season for
\* now existed before the call.
C18_RolloverTargetsNow ==
    [][(view_leaderboard
        /\ CurrentSeason(seasons) # NoId
        /\ now > seasons[CurrentSeason(seasons)].end)
       => /\ last'.ok
          /\ {i \in DOMAIN seasons' : seasons'[i].cur}
                = {i \in DOMAIN seasons' :
                      seasons'[i].start <= now /\ now <= seasons'[i].end}]_vars

\* C19: immediately after a rollover performed by current_season(), every
\* player's global rating and every per-game-type rating equals 1500.
C19_RolloverResetsRatings ==
    [][(view_leaderboard /\ CurrentSeason(seasons') # CurrentSeason(seasons))
       => \A p \in DOMAIN elo' :
             /\ elo'[p] = BaseElo
             /\ \A ty \in GameTypes : eloType'[p][ty] = BaseElo]_vars

\* C20: when get_current_season() calls of two workers interleave, no two
\* seasons are created for the same quarter, and once the flagged season
\* contains now no step of either call resets a rating or moves the flag: the
\* ratings are reset once, and a game recorded after that reset keeps its
\* effect.
C20_ConcurrentRolloverSafe ==
    [][/\ \A i, j \in DOMAIN seasons' :
             i # j => seasons'[i].name # seasons'[j].name
       /\ (/\ CurrentSeasonStep
           /\ CurrentSeason(seasons) # NoId
           /\ ~(now > seasons[CurrentSeason(seasons)].end))
          => /\ elo' = elo
             /\ eloType' = eloType
             /\ CurrentSeason(seasons') = CurrentSeason(seasons)]_vars

\* Worker 1 rolled the season over, a game was recorded after the reset, and
\* the call of worker 2, which had read the expired season, then ended on the
\* unique constraint.
C20_Witness ==
    /\ pc[1].at = "rolled"
    /\ pc[2].at = "failed"
    /\ last = Outcome("current_season", FALSE)
    /\ Len(games) >= 1
    /\ elo[1] # BaseElo
    /\ Len(seasons) = 2 /\ seasons[2].cur

\* C21: for every date d, the last days of a quarter included,
\* get_season_for_date(d) returns a season whose range contains d, and it
\* adds a season only when no season of the table contains d.
C21_SeasonContainsDate ==
    [][\A d \in SeasonDates :
          season_for_date(d) =>
              LET r == get_season_for_date(seasons, d)
              IN  /\ r.ok
                  /\ r.id \in DOMAIN r.seasons
                  /\ r.seasons[r.id].start <= d /\ d <= r.seasons[r.id].end
                  /\ (r.seasons # seasons => SeasonContaining(seasons, d) = NoId)]_vars

\* C22: whatever the interleaving of get_season_for_date, get_current_season
\* and rollovers, no two seasons share a name and no two seasons have
\* overlapping date ranges; and when a rollover reaches a quarter whose season
\* was created before for the date of a game, that season is reused: the call
\* succeeds, adds no season and flags the existing one.
C22_SeasonsDisjoint ==
    [][/\ \A i, j \in DOMAIN seasons' :
             i # j => /\ seasons'[i].name # seasons'[j].name
                      /\ (seasons'[i].end < seasons'[j].start
                          \/ seasons'[j].end < seasons'[i].start)
       /\ (/\ view_leaderboard
           /\ CurrentSeason(seasons) # NoId
           /\ now > seasons[CurrentSeason(seasons)].end
           /\ SeasonContaining(seasons, now) # NoId)
          => /\ last'.ok
             /\ Len(seasons') = Len(seasons)
             /\ seasons'[SeasonContaining(seasons, now)].cur]_vars

\* C23: a record_game request with a negative score, a score above 11, equal
\* scores, a player on both teams or an empty team is rejected, and the
\* games, seasons, ratings, cake balances and snapshots are afterwards what
\* they were before the request.
C23_RejectedGameChangesNothing ==
    [][\A f \in InvalidForms :
          add_game(f[1], f[2][1], f[2][2], f[3][1], f[3][2]) =>
              /\ ~last'.ok
              /\ UNCHANGED <<games, seasons, elo, eloType, cake, hist>>]_vars

\* C24: an edit of a game linked to a tournament match, or of a game whose
\* start time is more than 7 days before now, is rejected and changes no
\* game, rating, cake balance or snapshot; an edit with valid facts of an
\* unlinked game at most 7 days old is accepted and recalculates its season
\* (stated where the table holds one season: the ratings and cake balances
\* are then those computed from scratch from the edited table).
C24_EditImmutability ==
    [][\A gid \in DOMAIN games, f \in Forms :
          (f[2][1] # {} /\ f[2][2] # {}
           /\ update_game(gid, f[1], f[2][1], f[2][2], f[3][1], f[3][2]))
          => IF \/ TournamentLinked(gid)
                \/ games[gid].t < now - EditWindowDays * SecondsPerDay
             THEN /\ ~last'.ok
                  /\ UNCHANGED <<games, elo, eloType, cake, hist>>
             ELSE (ScoresValid(f[3][1], f[3][2]) /\ f[2][1] \cap f[2][2] = {})
                  => /\ last'.ok
                     /\ games'[gid].t = f[1]
                     /\ (Len(seasons') = 1
                         => /\ elo' = recalculate_all_elo_ratings(DOMAIN elo, games').elo
                            /\ cake' = rebuild_cake_balances(games'))]_vars

\* C25: whatever happens to an edit and the recalculation it starts, the
\* stored state afterwards is either the old one throughout or the new one
\* throughout: the game facts are never the edited ones while the ratings and
\* cake balances are not those of the edited table (stated where the table
\* holds one season).
C25_RecalculationAtomic ==
    [][(Edit /\ Len(seasons') = 1)
       => \/ UNCHANGED <<games, elo, eloType, cake, hist>>
          \/ /\ elo' = recalculate_all_elo_ratings(DOMAIN elo, games').elo
             /\ eloType' = recalculate_all_elo_ratings(DOMAIN elo, games').eloType
             /\ cake' = rebuild_cake_balances(games')]_vars

\* C26: what a recalculation leaves depends on the game log alone: after the
\* recalculation an accepted edit starts (stated where the table holds one
\* season), the ratings, the rating deltas stored with the games, the cake
\* balances and the snapshots are those computed from the game table from
\* scratch, whatever they were before.
C26_RebuildIndependentOfPrior ==
    (last = Outcome("update_game", TRUE) /\ Len(seasons) = 1)
    => LET r == ReplayChanges(ResetRatings(DOMAIN elo), games,
                              OrderByStartTime(games, DOMAIN games), 1)
       IN  /\ games = r.games
           /\ elo = r.elo
           /\ eloType = r.eloType
           /\ cake = rebuild_cake_balances(games)
           /\ hist = recalculate_historical_snapshots(seasons, games, DOMAIN elo)

\* The snapshot rows of season sid with the latest date.
LatestSnapshot(sid) ==
    {h \in hist : h.season = sid
                  /\ \A h2 \in hist : h2.season = sid => h2.date <= h.date}

\* C27: after the rating replay and the snapshot rebuild, every player with a
\* game in the current season has, in the latest snapshot of that season, the
\* rating the rating replay stored as the player's global rating.
C27_SnapshotsAgreeWithReplay ==
    last = Outcome("rebuild_history", TRUE)
    => \A p \in DOMAIN elo :
          SeasonGameCount(games, CurrentSeason(seasons), p) > 0
          => \E h \in LatestSnapshot(CurrentSeason(seasons)) :
                h.player = p /\ h.elo = elo[p]

\* C28: after any sequence of recorded games, the snapshot rows stored by the
\* snapshot step of add_game (date, season, rank, rating, game count) are the
\* rows the rebuild produces from the same game table, also for games dated on
\* an earlier day or in another season than the day of recording.
C28_IncrementalEqualsRebuilt ==
    hist = recalculate_historical_snapshots(seasons, games, DOMAIN elo)

\* C29: after any sequence of recorded games, snapshot steps and rebuilds there
\* is one snapshot row per (player, season, date): a snapshot taken again for
\* a season and date changes the rows it finds and adds none beside them.
C29_SnapshotUnique ==
    \A h1, h2 \in hist :
        (h1.player = h2.player /\ h1.season = h2.season /\ h1.date = h2.date)
        => h1 = h2

\* Two games of one season recorded on the same day: the second snapshot found
\* the rows of the first and changed their rating and game count.
C29_Witness ==
    /\ Len(games) = 2
    /\ games[1].season = games[2].season
    /\ \E h \in hist : h.player = 1 /\ h.games = 2 /\ h.elo # BaseElo
    /\ hist # recalculate_historical_snapshots(seasons, games, DOMAIN elo)
    /\ \E h \in hist : h.date = DateOf(ClockValues[1])

\* Players with a game of season sid dated on or before date d.
PlayedBy(sid, d) ==
    {p \in DOMAIN elo :
        \E i \in DOMAIN games :
            /\ games[i].season = sid
            /\ DateOf(games[i].t) <= d
            /\ p \in games[i].team1 \cup games[i].team2}

\* C30: in the snapshot of every season and date, the rows are those of the
\* players with a game in the season as of the date, the ranks are 1 .. k, each
\* once, and a player with a higher rating never has a larger rank number.
C30_SnapshotRanking ==
    \A h \in hist :
        LET rows == {x \in hist : x.season = h.season /\ x.date = h.date}
        IN  /\ {x.player : x \in rows} = PlayedBy(h.season, h.date)
            /\ {x.rank : x \in rows} = 1 .. Cardinality(rows)
            /\ \A x, y \in rows : x.elo > y.elo => x.rank < y.rank

\* The games of season sid dated on or before date d, by start time.
SeasonGamesUpTo(sid, d) ==
    OrderByStartTime(games, {i \in DOMAIN games :
                                games[i].season = sid /\ DateOf(games[i].t) <= d})

\* C31: after rebuild_history the snapshot table has rows exactly for the
\* dates on which a season has games and for the players who played in the
\* season up to that date; a row holds the rating reached by applying, from
\* 1500 for every player, the games of the season up to the end of that date
\* in start-time order, and the number of those games the player is in.
C31_RebuildDailyPerSeason ==
    last.op = "rebuild_history" =>
        /\ \A h \in hist :
              /\ \E i \in DOMAIN games :
                    games[i].season = h.season /\ DateOf(games[i].t) = h.date
              /\ LET ord == SeasonGamesUpTo(h.season, h.date)
                 IN  /\ h.elo = ReplayFrom(ResetRatings(DOMAIN elo), games, ord, 1).elo[h.player]
                     /\ h.games = GamesCounted(games, ord, Len(ord), h.player)
                     /\ h.games > 0
        /\ \A i \in DOMAIN games :
              games[i].season # NoId =>
                  \A p \in games[i].team1 \cup games[i].team2 :
                      \E h \in hist : /\ h.player = p
                                      /\ h.season = games[i].season
                                      /\ h.date = DateOf(games[i].t)

\* A rebuild over two games of one date and one season: the rows of that date
\* count both games.
C31_Witness ==
    /\ last.op = "rebuild_history"
    /\ Len(games) = 2
    /\ games[1].season = games[2].season
    /\ DateOf(games[1].t) = DateOf(games[2].t)
    /\ \E h \in hist : h.games = 2 /\ h.elo # BaseElo

\* Twice the arithmetic mean of the values f over the members of team.
TwiceMean(f, team) == (2 * SumOver(f, team)) \div Cardinality(team)

\* C32: when a game is applied, each team has one delta for the global rating
\* and one for the rating of the game's type, each computed from the means of
\* the members' ratings of that kind before the game; every member of the team
\* receives exactly these deltas, the delta recorded for the participants is
\* the global one, and nothing else changes in the ratings.
C32_TeamDelta ==
    [][\A i \in DOMAIN games :
          (i \notin applied /\ applied' = applied \cup {i}) =>
              LET g == games[i]
                  typed == [p \in DOMAIN eloType |-> eloType[p][g.type]]
                  dg == calculate_elo_change(TwiceMean(elo, g.team1),
                                             TwiceMean(elo, g.team2), g.s1, g.s2)
                  dt == calculate_elo_change(TwiceMean(typed, g.team1),
                                             TwiceMean(typed, g.team2), g.s1, g.s2)
              IN  /\ \A p \in g.team1 :
                        /\ elo'[p] = elo[p] + dg[1]
                        /\ eloType'[p][g.type] = eloType[p][g.type] + dt[1]
                  /\ \A p \in g.team2 :
                        /\ elo'[p] = elo[p] + dg[2]
                        /\ eloType'[p][g.type] = eloType[p][g.type] + dt[2]
                  /\ games'[i].chg = dg
                  /\ \A p \in DOMAIN elo :
                        /\ p \notin g.team1 \cup g.team2 =>
                              elo'[p] = elo[p] /\ eloType'[p] = eloType[p]
                        /\ \A ty \in GameTypes \ {g.type} :
                              eloType'[p][ty] = eloType[p][ty]]_vars

\* A 2v2 game applied to teammates of different ratings whose global rating
\* and 2v2 rating had moved apart: the recorded delta is the global one, and
\* the 2v2 ratings moved by another amount.
C32_Witness ==
    \E i \in applied :
        /\ games[i].type = "2v2"
        /\ Len(games[i].chg) = 2
        /\ \E p, q \in games[i].team1 : elo[p] # elo[q]
        /\ \E p \in games[i].team1 :
              /\ elo[p] # eloType[p]["2v2"]
              /\ eloType[p]["2v2"] - games[i].chg[1] # BaseElo
              /\ \A j \in applied : j # i => Before(games, j, i)

\* The game applied by the step: its row before the step.
AppliedNow(i) == i \in DOMAIN games /\ i \notin applied /\ applied' = applied \cup {i}

\* C33: when a game between two teams of equal average rating is applied, the
\* team with the higher score receives +16 and the other team -16, so the two
\* deltas sum to zero; the same for the ratings of the game's type.
C33_EqualAveragesSixteen ==
    [][\A i \in DOMAIN games :
          AppliedNow(i) =>
              LET g == games[i]
                  typed == [p \in DOMAIN eloType |-> eloType[p][g.type]]
                  sixteen == IF g.s1 > g.s2 THEN <<16, -16>> ELSE <<-16, 16>>
              IN  /\ TwiceMean(elo, g.team1) = TwiceMean(elo, g.team2) =>
                        /\ games'[i].chg = sixteen
                        /\ games'[i].chg[1] + games'[i].chg[2] = 0
                  /\ TwiceMean(typed, g.team1) = TwiceMean(typed, g.team2) =>
                        \A p \in g.team1, q \in g.team2 :
                            /\ eloType'[p][g.type] - eloType[p][g.type] = sixteen[1]
                            /\ eloType'[q][g.type] - eloType[q][g.type] = sixteen[2]]_vars

\* Both outcomes at equal averages: a game won by team 1 at +16/-16, and a
\* later 2v1 game won by team 2 at -16/+16 whose two teammates have different
\* ratings with the average of their opponent.
C33_Witness ==
    \E i, j \in applied :
        /\ games[i].chg = <<16, -16>>
        /\ games[j].chg = <<-16, 16>>
        /\ games[j].type = "2v1"
        /\ Before(games, i, j)
        /\ \E p, q \in games[j].team1 : elo[p] # elo[q]

\* C34 (as stated): the two deltas of an applied game sum to zero only when
\* the two team averages are equal.
C34_ZeroSumOnlyWhenEqual ==
    [][\A i \in DOMAIN games :
          AppliedNow(i) =>
              (games'[i].chg[1] + games'[i].chg[2] = 0
                  => TwiceMean(elo, games[i].team1) = TwiceMean(elo, games[i].team2))]_vars

\* C34 (amended): the two deltas of an applied game sum to zero whatever the
\* two team averages are, equal or not; the winner's gain is the loser's loss.
C34_ZeroSumAlways ==
    [][\A i \in DOMAIN games :
          AppliedNow(i) =>
              /\ games'[i].chg[1] + games'[i].chg[2] = 0
              /\ \A p \in games[i].team1, q \in games[i].team2 :
                    (elo'[p] - elo[p]) + (elo'[q] - elo[q]) = 0]_vars

\* A game applied between teams of unequal average: the winner's gain is not
\* 16, and the loser lost the same amount.
C34_Witness ==
    \E i \in applied :
        /\ Len(games[i].chg) = 2
        /\ games[i].chg[1] \notin {16, -16}
        /\ games[i].chg[1] + games[i].chg[2] = 0

\* A match that can be played: two players and no winner.
Ready(id) ==
    matches[id].p1 # NoId /\ matches[id].p2 # NoId /\ matches[id].winner = NoId

C36_NoCascadeAtGeneration ==
    tstatus # "none" =>
        \A id \in DOMAIN matches :
            /\ IsFirstRound(id) => (matches[id].p1 # NoId \/ matches[id].p2 # NoId)
            /\ (games = <<>> /\ ~IsFirstRound(id)) => matches[id].winner = NoId
            /\ (matches[id].winner # NoId /\ matches[id].game = NoId) =>
                  /\ IsFirstRound(id)
                  /\ (matches[id].p1 = NoId) # (matches[id].p2 = NoId)

\* Nine players, seven byes: seed 2 won its first-round match without a game
\* and met another bye winner in a match that has two players and no winner;
\* seed 1 did too and waits alone in a match that has no winner.
C36_Witness ==
    /\ tstatus = "active" /\ games = <<>> /\ Len(seeds) = 9
    /\ \E a \in DOMAIN matches :
          /\ IsFirstRound(a)
          /\ matches[a].winner = seeds[2] /\ matches[a].game = NoId
          /\ matches[matches[a].next].p1 # NoId
          /\ matches[matches[a].next].p2 # NoId
          /\ matches[matches[a].next].winner = NoId
    /\ \E b \in DOMAIN matches :
          /\ IsFirstRound(b)
          /\ matches[b].winner = seeds[1] /\ matches[b].game = NoId
          /\ matches[matches[b].next].p2 = NoId
          /\ matches[matches[b].next].winner = NoId

\* C37: the winner of a match is one of its two players, and a match that has
\* a winner keeps its winner, its players and its linked game in every later
\* step.
C37_ResultsFinal ==
    /\ [](\A id \in DOMAIN matches :
             matches[id].winner # NoId =>
                 matches[id].winner \in {matches[id].p1, matches[id].p2})
    /\ [][\A id \in DOMAIN matches :
             matches[id].winner # NoId =>
                 /\ id \in DOMAIN matches'
                 /\ matches'[id].winner = matches[id].winner
                 /\ matches'[id].p1 = matches[id].p1
                 /\ matches'[id].p2 = matches[id].p2
                 /\ matches'[id].game = matches[id].game]_vars

\* A final played after a semifinal that was played and a first-round match
\* that a bye decided: three kinds of decided match that later results and
\* rejected results left as they were.
C37_Witness ==
    /\ Len(games) >= 3
    /\ last = Outcome("record_match", FALSE)
    /\ \E a, b, c \in DOMAIN matches :
          /\ IsFirstRound(a) /\ matches[a].winner # NoId /\ matches[a].game = NoId
          /\ matches[b].round = 2 /\ matches[b].game # NoId
          /\ matches[c].round = 1 /\ matches[c].game # NoId
          /\ matches[c].game > matches[b].game

\* The player of match id that is not its winner (NoId when a bye decided it).
LoserOf(id) ==
    IF matches[id].winner = matches[id].p1 THEN matches[id].p2 ELSE matches[id].p1

\* C38: a player who lost a match is in no match of a later round (a smaller
\* round number); no player is in two matches that have no winner; a match
\* that has been played is fed only by matches that have a winner; and in a
\* completed tournament every match has a winner.
C38_EliminationRespected ==
    tstatus # "none" =>
        /\ \A a, b \in DOMAIN matches :
              (/\ matches[a].winner # NoId
               /\ LoserOf(a) # NoId
               /\ matches[b].round < matches[a].round)
              => LoserOf(a) \notin {matches[b].p1, matches[b].p2}
        /\ \A p \in 1 .. Len(seeds) :
              Cardinality({id \in DOMAIN matches :
                              /\ matches[id].winner = NoId
                              /\ seeds[p] \in {matches[id].p1, matches[id].p2}}) <= 1
        /\ \A id \in DOMAIN matches :
              matches[id].game # NoId =>
                  \A j \in DOMAIN matches :
                      matches[j].next = id => matches[j].winner # NoId
        /\ tstatus = "completed" =>
              \A id \in DOMAIN matches : matches[id].winner # NoId

\* Five players, two games played: the loser of the first-round game is in no
\* later match, and the winner of a semifinal waits in the final while the
\* other semifinal is not played.
C38_Witness ==
    /\ Len(seeds) = 5 /\ Len(games) = 2 /\ tstatus = "active"
    /\ \E a, b \in DOMAIN matches :
          /\ matches[a].round = 3 /\ matches[a].game = 1 /\ LoserOf(a) # NoId
          /\ matches[b].round = 2 /\ matches[b].game = 2
          /\ matches[matches[b].next].p1 = NoId \/ matches[matches[b].next].p2 = NoId

\* A game whose stored start time is more than 7 days before now.
TooOld(gid) == games[gid].t < now - EditWindowDays * SecondsPerDay

\* C39: an edit is accepted only when the start time stored before the edit
\* is at most 7 days old, and it stores the start time submitted, whatever
\* that is, with the season of that time; a game whose stored start time is
\* more than 7 days old keeps it in every step and stays that old, and every
\* edit of it is rejected and changes no game.
C39_WindowOnStoredTime ==
    [][/\ \A gid \in DOMAIN games, f \in WindowForms :
             update_game(gid, f[1], f[2][1], f[2][2], f[3][1], f[3][2]) =>
                 /\ TooOld(gid) => (~last'.ok /\ games' = games /\ audit' = audit)
                 /\ last'.ok =>
                       /\ ~TooOld(gid)
                       /\ games'[gid].t = f[1]
                       /\ seasons'[games'[gid].season].start <= f[1]
                       /\ f[1] <= seasons'[games'[gid].season].end
       /\ \A gid \in DOMAIN games :
             TooOld(gid) =>
                 /\ games'[gid].t = games[gid].t
                 /\ games'[gid].t < now' - EditWindowDays * SecondsPerDay]_vars

\* A game recorded in the season of quarter 2 (its snapshot rows are of that
\* season) was edited to 22 March: the edit was accepted and moved the game
\* to a season of quarter 1, more than 7 days back, and a later edit of the
\* game was rejected.
C39_Witness ==
    /\ Len(games) = 1
    /\ audit = 1
    /\ games[1].t = At(80, 36000)
    /\ seasons[games[1].season].name # seasons[1].name
    /\ hist # {}
    /\ \A h \in hist : h.season = 1
    /\ last = Outcome("update_game", FALSE)

====
